---- MODULE Spec2Model ----
(***************************************************************************)
(* SimpleCross (src/simple_cross.cpp): a single-process order crossing     *)
(* engine.  One call of SimpleCross::action is one step of the model.      *)
(*                                                                         *)
(* Representation.  An order line "O oid symbol side qty px" is a record.  *)
(* A price is an integer number of 10^-6 units; the documented input       *)
(* format ("7.5": exactly five fractional digits) makes every input price  *)
(* a multiple of PxGrid, and setprecision5 is the rounding that            *)
(* std::fixed << std::setprecision(5) performs.  std::map is a function    *)
(* whose domain is the key set, iterated in ascending key order.           *)
(***************************************************************************)
EXTENDS Integers, Sequences, FiniteSets, TLC

\* ---------------------------------------------------------------- bounds
\* at most MaxSteps order lines and cancels are taken, at most MaxCancels
\* of them cancels
MaxCancels == 2
MaxSteps == 4

PxGrid == 10

\* ---------------------------------------------------------- input values
Oids == 1..3
Symbols == {"IBM", "MSFT"}
Sides == {"B", "S"}
BadSide == "Q"
Qtys == 1..2
Prices == {PxGrid * k : k \in 1..2}
LowPx == CHOOSE p \in Prices : \A q \in Prices : p <= q
HighPx == CHOOSE p \in Prices : \A q \in Prices : p >= q

VARIABLES book_main, OIDs, symOrder, crashed,
          output, lastAct, matches,
          accepted, fillSum, cancelQty, acks, ackedOpen, matchedQty, prevBook

vars == <<book_main, OIDs, symOrder, crashed, output, lastAct, matches,
          accepted, fillSum, cancelQty, acks, ackedOpen, matchedQty, prevBook>>

\* ------------------------------------------------- containers and lines
EmptyMap == << >>

Put(f, k, v) == [x \in (DOMAIN f) \cup {k} |-> IF x = k THEN v ELSE f[x]]

Erase(f, k) == [x \in (DOMAIN f) \ {k} |-> f[x]]

At(f, k, d) == IF k \in DOMAIN f THEN f[k] ELSE d

EmptyPair == [first |-> EmptyMap, second |-> EmptyMap]

EmptyLine == [oid |-> 0, symbol |-> "", side |-> "", qty |-> 0, px |-> 0]

Line(o, sym, sd, q, p) == [oid |-> o, symbol |-> sym, side |-> sd, qty |-> q, px |-> p]

setprecision5(p) == ((p + (PxGrid \div 2)) \div PxGrid) * PxGrid

\* a formatter that keeps one digit less
merge_coarse(l) == [l EXCEPT !.px = (l.px \div (2 * PxGrid)) * (2 * PxGrid)]

merge(l) == [l EXCEPT !.px = setprecision5(l.px)]

RECURSIVE SortAsc(_)
SortAsc(S) ==
    IF S = {} THEN << >>
    ELSE LET m == CHOOSE x \in S : \A y \in S : x <= y
         IN <<m>> \o SortAsc(S \ {m})

Reverse_not(s) == s

Reverse(s) == [i \in 1..Len(s) |-> s[Len(s) + 1 - i]]

\* ------------------------------------------------------- result records
Rec(k, o, sym, sd, q, p, m) ==
    [kind |-> k, oid |-> o, symbol |-> sym, side |-> sd, qty |-> q, px |-> p, msg |-> m]

FRec(o, sym, q, p) == Rec("F", o, sym, "", q, p, "")

XRec(o) == Rec("X", o, "", "", 0, 0, "")

PRec(l) == Rec("P", l.oid, l.symbol, l.side, l.qty, l.px, "")

ERec(o, m) == Rec("E", o, "", "", 0, 0, m)

\* the orders of one price level, in the iteration order of std::map<int,..>
append_orders_for_key(orders) ==
    LET ks == SortAsc(DOMAIN orders)
    IN [i \in 1..Len(ks) |-> orders[ks[i]]]

\* ------------------------------------------------------ book operations
add_to_sub_book(line, book) ==
    Put(book, line.px, Put(At(book, line.px, EmptyMap), line.oid, line))

\* the residual is filed under a fixed symbol instead of the line's own
add_to_book_fixed_symbol(line, book) ==
    LET pair == At(book, "MSFT", EmptyPair)
    IN CASE line.side = "B" ->
               Put(book, "MSFT", [pair EXCEPT !.first = add_to_sub_book(line, pair.first)])
         [] line.side = "S" ->
               Put(book, "MSFT", [pair EXCEPT !.second = add_to_sub_book(line, pair.second)])
         [] OTHER -> Put(book, "MSFT", pair)

add_to_book(line, book) ==
    LET pair == At(book, line.symbol, EmptyPair)
    IN CASE line.side = "B" ->
               Put(book, line.symbol, [pair EXCEPT !.first = add_to_sub_book(line, pair.first)])
         [] line.side = "S" ->
               Put(book, line.symbol, [pair EXCEPT !.second = add_to_sub_book(line, pair.second)])
         [] OTHER -> Put(book, line.symbol, pair)

delete_from_book_keep_sell(o, book, idx) ==
    LET order == idx[o]
        price == order.px
        pair == At(book, order.symbol, EmptyPair)
    IN CASE order.side = "B" ->
               Put(book, order.symbol,
                   [pair EXCEPT !.first = Put(pair.first, price, Erase(At(pair.first, price, EmptyMap), o))])
         [] OTHER -> book

\* the order is located through its OIDs entry (the line as first submitted)
delete_from_book(o, book, idx) ==
    LET order == idx[o]
        price == order.px
        pair == At(book, order.symbol, EmptyPair)
    IN CASE order.side = "B" ->
               Put(book, order.symbol,
                   [pair EXCEPT !.first = Put(pair.first, price, Erase(At(pair.first, price, EmptyMap), o))])
         [] order.side = "S" ->
               Put(book, order.symbol,
                   [pair EXCEPT !.second = Put(pair.second, price, Erase(At(pair.second, price, EmptyMap), o))])
         [] OTHER -> book

update_in_book_stale(line, book, idx) == book

update_in_book(line, book, idx) ==
    LET order == idx[line.oid]
        price == order.px
        pair == At(book, order.symbol, EmptyPair)
    IN CASE order.side = "B" ->
               Put(book, order.symbol,
                   [pair EXCEPT !.first = Put(pair.first, price, Put(At(pair.first, price, EmptyMap), line.oid, line))])
         [] order.side = "S" ->
               Put(book, order.symbol,
                   [pair EXCEPT !.second = Put(pair.second, price, Put(At(pair.second, price, EmptyMap), line.oid, line))])
         [] OTHER -> book

\* ------------------------------------------------------------- crossing
\* One entry of the match log: what the loop held just before a match.
Match(line, order, rem) ==
    [aggr |-> line.oid, rest |-> order.oid, aggrRem |-> rem, restOpen |-> order.qty,
     restPx |-> order.px, aggrPx |-> line.px, aggrSide |-> line.side, symbol |-> line.symbol]

Cross0(line, book, idx) ==
    [book |-> book, idx |-> idx, qty |-> line.qty, out |-> << >>, log |-> << >>, pastEnd |-> FALSE]

buy_crossable_strict(levelPx, price) == levelPx < price

buy_crossable_reversed(levelPx, price) == levelPx >= price

buy_crossable(levelPx, price) == levelPx <= price

buy_fill_px(line, order) == setprecision5(order.px)

sweep_fill_qty(line, order) == line.qty

RECURSIVE buy_level(_, _, _, _)
buy_level(line, ords, j, st) ==
    IF j > Len(ords) THEN st
    ELSE LET order == ords[j]
             px == buy_fill_px(line, order)
             sell_quantity == order.qty
             m == Match(line, order, st.qty)
         IN IF sell_quantity > st.qty THEN
                [st EXCEPT !.book = update_in_book(merge([order EXCEPT !.qty = sell_quantity - st.qty]), st.book, st.idx),
                           !.qty = 0,
                           !.out = @ \o <<FRec(line.oid, line.symbol, sweep_fill_qty(line, order), px),
                                          FRec(order.oid, line.symbol, sweep_fill_qty(line, order), px)>>,
                           !.log = Append(@, m)]
            ELSE IF sell_quantity = st.qty THEN
                [st EXCEPT !.book = delete_from_book(order.oid, st.book, st.idx),
                           !.qty = 0,
                           !.out = @ \o <<FRec(line.oid, line.symbol, sweep_fill_qty(line, order), px),
                                          FRec(order.oid, line.symbol, sweep_fill_qty(line, order), px)>>,
                           !.log = Append(@, m)]
            ELSE
                buy_level(line, ords, j + 1,
                    [st EXCEPT !.book = delete_from_book(order.oid, st.book, st.idx),
                               !.qty = st.qty - sell_quantity,
                               !.out = @ \o <<FRec(line.oid, line.symbol, order.qty, px),
                                              FRec(order.oid, line.symbol, order.qty, px)>>,
                               !.log = Append(@, m)])

\* the while loop of buy_cross over a copy of the sell book, lowest price
\* first; its condition dereferences the iterator before comparing it to end()
RECURSIVE buy_loop(_, _, _, _, _)
buy_loop(line, sell_book, levels, i, st) ==
    IF i > Len(levels) THEN [st EXCEPT !.pastEnd = TRUE]
    ELSE IF buy_crossable(levels[i], line.px) /\ st.qty > 0
         THEN buy_loop(line, sell_book, levels, i + 1,
                       buy_level(line, append_orders_for_key(sell_book[levels[i]]), 1, st))
         ELSE st

\* the residual is rested without writing the remaining quantity into it
buy_cross_full_residual(line, book, idx) ==
    LET book1 == Put(book, line.symbol, At(book, line.symbol, EmptyPair))
        sell_book == book1[line.symbol].second
        st == buy_loop(line, sell_book, SortAsc(DOMAIN sell_book), 1, Cross0(line, book1, idx))
    IN IF st.qty # 0
       THEN [st EXCEPT !.book = add_to_book(merge(line), st.book)]
       ELSE st

buy_cross(line, book, idx) ==
    LET book1 == Put(book, line.symbol, At(book, line.symbol, EmptyPair))
        sell_book == book1[line.symbol].second
        st == buy_loop(line, sell_book, SortAsc(DOMAIN sell_book), 1, Cross0(line, book1, idx))
    IN IF st.qty # 0
       THEN [st EXCEPT !.book = add_to_book(merge([line EXCEPT !.qty = st.qty]), st.book)]
       ELSE st

sell_crossable(levelPx, price) == levelPx >= price

sell_fill_px(line, order) == setprecision5(line.px)

RECURSIVE sell_level(_, _, _, _)
sell_level(line, ords, j, st) ==
    IF j > Len(ords) THEN st
    ELSE LET order == ords[j]
             px == sell_fill_px(line, order)
             buy_quantity == order.qty
             m == Match(line, order, st.qty)
         IN IF buy_quantity > st.qty THEN
                [st EXCEPT !.book = update_in_book(merge([order EXCEPT !.qty = buy_quantity - st.qty]), st.book, st.idx),
                           !.qty = 0,
                           !.out = @ \o <<FRec(line.oid, line.symbol, sweep_fill_qty(line, order), px),
                                          FRec(order.oid, line.symbol, sweep_fill_qty(line, order), px)>>,
                           !.log = Append(@, m)]
            ELSE IF st.qty = buy_quantity THEN
                [st EXCEPT !.book = delete_from_book(order.oid, st.book, st.idx),
                           !.qty = 0,
                           !.out = @ \o <<FRec(line.oid, line.symbol, sweep_fill_qty(line, order), px),
                                          FRec(order.oid, line.symbol, sweep_fill_qty(line, order), px)>>,
                           !.log = Append(@, m)]
            ELSE
                sell_level(line, ords, j + 1,
                    [st EXCEPT !.book = delete_from_book(order.oid, st.book, st.idx),
                               !.qty = st.qty - buy_quantity,
                               !.out = @ \o <<FRec(line.oid, line.symbol, order.qty, px),
                                              FRec(order.oid, line.symbol, order.qty, px)>>,
                               !.log = Append(@, m)])

\* the while loop of sell_cross over a copy of the buy book, highest price
\* first; its condition dereferences the reverse iterator before comparing
\* it to rend()
RECURSIVE sell_loop(_, _, _, _, _)
sell_loop(line, buy_book, levels, i, st) ==
    IF i > Len(levels) THEN [st EXCEPT !.pastEnd = TRUE]
    ELSE IF sell_crossable(levels[i], line.px) /\ st.qty > 0
         THEN sell_loop(line, buy_book, levels, i + 1,
                        sell_level(line, append_orders_for_key(buy_book[levels[i]]), 1, st))
         ELSE st

sell_cross(line, book, idx) ==
    LET book1 == Put(book, line.symbol, At(book, line.symbol, EmptyPair))
        buy_book == book1[line.symbol].first
        st == sell_loop(line, buy_book, Reverse(SortAsc(DOMAIN buy_book)), 1, Cross0(line, book1, idx))
    IN IF st.qty # 0
       THEN [st EXCEPT !.book = add_to_book(merge([line EXCEPT !.qty = st.qty]), st.book)]
       ELSE st

\* the two records of every match in the opposite order
RECURSIVE SwapPairs(_)
SwapPairs(out) ==
    IF Len(out) < 2 THEN out
    ELSE <<out[2], out[1]>> \o SwapPairs(SubSeq(out, 3, Len(out)))

cross_order_resting_first(line, book, idx) ==
    CASE line.side = "B" -> [buy_cross(line, book, idx) EXCEPT !.out = SwapPairs(@)]
      [] line.side = "S" -> [sell_cross(line, book, idx) EXCEPT !.out = SwapPairs(@)]
      [] OTHER -> [Cross0(line, book, idx) EXCEPT !.out = <<ERec(0, "Incorrect side character")>>]

cross_order(line, book, idx) ==
    CASE line.side = "B" -> buy_cross(line, book, idx)
      [] line.side = "S" -> sell_cross(line, book, idx)
      [] OTHER -> [Cross0(line, book, idx) EXCEPT !.out = <<ERec(0, "Incorrect side character")>>]

\* ---------------------------------------------------------------- print
RECURSIVE print_merge(_, _, _, _)
print_merge(buy_book, sell_book, bl, sl) ==
    IF bl # << >> /\ sl # << >> THEN
        IF Head(bl) <= Head(sl)
        THEN append_orders_for_key(buy_book[Head(bl)]) \o print_merge(buy_book, sell_book, Tail(bl), sl)
        ELSE append_orders_for_key(sell_book[Head(sl)]) \o print_merge(buy_book, sell_book, bl, Tail(sl))
    ELSE IF bl # << >> THEN
        append_orders_for_key(buy_book[Head(bl)]) \o print_merge(buy_book, sell_book, Tail(bl), sl)
    ELSE IF sl # << >> THEN
        append_orders_for_key(sell_book[Head(sl)]) \o print_merge(buy_book, sell_book, bl, Tail(sl))
    ELSE << >>

print_book_pair(buy_book, sell_book) ==
    Reverse(print_merge(buy_book, sell_book, SortAsc(DOMAIN buy_book), SortAsc(DOMAIN sell_book)))

RECURSIVE print_all(_, _)
print_all(book, syms) ==
    IF syms = << >> THEN << >>
    ELSE LET pl == print_book_pair(book[Head(syms)].first, book[Head(syms)].second)
         IN [i \in 1..Len(pl) |-> PRec(pl[i])] \o print_all(book, Tail(syms))

\* ------------------------------------------------------ history helpers
\* total quantity carried by the F records of a result list, per oid
RECURSIVE AddFills(_, _)
AddFills(fs, out) ==
    IF out = << >> THEN fs
    ELSE AddFills(IF Head(out).kind = "F"
                  THEN [fs EXCEPT ![Head(out).oid] = @ + Head(out).qty]
                  ELSE fs,
                  Tail(out))

\* the quantity each match of a log took from its two orders, per oid
RECURSIVE AddMatched(_, _)
AddMatched(mq, log) ==
    IF log = << >> THEN mq
    ELSE LET m == Head(log)
             q == IF m.aggrRem <= m.restOpen THEN m.aggrRem ELSE m.restOpen
         IN AddMatched([mq EXCEPT ![m.aggr] = @ + q, ![m.rest] = @ + q], Tail(log))

\* the open quantity the book holds for an oid (0 when it rests nowhere)
OpenQty(book, o) ==
    LET hits == {<<s, sd, p>> \in (DOMAIN book) \X {"first", "second"} \X Prices :
                    /\ p \in DOMAIN book[s][sd]
                    /\ o \in DOMAIN book[s][sd][p]}
    IN IF hits = {} THEN 0
       ELSE LET h == CHOOSE h \in hits : TRUE IN book[h[1]][h[2]][h[3]][o].qty

InsertAt(s, i, e) == SubSeq(s, 1, i - 1) \o <<e>> \o SubSeq(s, i, Len(s))

Range(s) == {s[i] : i \in DOMAIN s}

\* ----------------------------------------------------------------- state
Init ==
    /\ book_main = EmptyMap
    /\ OIDs = EmptyMap
    /\ symOrder = << >>
    /\ crashed = FALSE
    /\ output = << >>
    /\ lastAct = [a |-> "", oid |-> 0]
    /\ matches = << >>
    /\ accepted = << >>
    /\ fillSum = [o \in Oids |-> 0]
    /\ cancelQty = [o \in Oids |-> 0]
    /\ acks = [o \in Oids |-> 0]
    /\ ackedOpen = {}
    /\ matchedQty = [o \in Oids |-> 0]
    /\ prevBook = EmptyMap

\* the process dies inside action(): the call returns nothing and no later
\* action is processed
Fault ==
    /\ crashed' = TRUE
    /\ output' = << >>
    /\ matches' = << >>
    /\ lastAct' = [a |-> "", oid |-> 0]
    /\ prevBook' = book_main
    /\ UNCHANGED <<book_main, OIDs, symOrder, accepted, fillSum, cancelQty, acks, ackedOpen, matchedQty>>

RECURSIVE SumOver(_, _)
SumOver(f, S) ==
    IF S = {} THEN 0
    ELSE LET x == CHOOSE x \in S : TRUE IN f[x] + SumOver(f, S \ {x})

is_new_oid_always(o, idx) == TRUE

is_new_oid(o, idx) == o \notin DOMAIN idx

\* the number of state-changing actions so far: order lines taken into OIDs
\* and cancels answered
Steps == Cardinality({o \in DOMAIN OIDs : OIDs[o] # EmptyLine}) + SumOver(acks, Oids)

\* the order lines offered to the engine: every well-formed IBM line within
\* the bounds; for MSFT a bid at the highest and an ask at the lowest price
\* (they cross each other and every IBM order of the opposite side); and
\* one line per oid whose side character is neither B nor S
OrderLines ==
    {Line(o, "IBM", sd, q, p) : o \in Oids, sd \in Sides, q \in Qtys, p \in Prices}
    \cup {Line(o, "MSFT", "B", 1, HighPx) : o \in Oids}
    \cup {Line(o, "MSFT", "S", 1, LowPx) : o \in Oids}
    \cup {Line(o, "IBM", BadSide, 1, LowPx) : o \in Oids}

\* a line whose oid is already in OIDs is answered before any other field
\* is looked at, so one line per oid stands for all re-submissions
ResubmitLines == {Line(o, "IBM", "B", 1, LowPx) : o \in Oids}

\* action("O oid symbol side qty px")
ActionO(line) ==
    LET o == line.oid
        sym == line.symbol
        sd == line.side
        act == [a |-> "O", oid |-> o]
    IN
    /\ ~crashed
    /\ is_new_oid(o, OIDs) => Steps < MaxSteps
    /\ is_new_oid(o, OIDs) \/ line \in ResubmitLines
    /\ IF is_new_oid(o, OIDs) THEN
          LET idx == Put(OIDs, o, line)
              res == cross_order(line, book_main, idx)
          IN \E fault \in (IF res.pastEnd THEN BOOLEAN ELSE {FALSE}) :
               IF fault THEN Fault
               ELSE /\ OIDs' = idx
                    /\ book_main' = res.book
                    /\ IF DOMAIN res.book = DOMAIN book_main
                       THEN symOrder' = symOrder
                       ELSE \E i \in 1..(Len(symOrder) + 1) : symOrder' = InsertAt(symOrder, i, sym)
                    /\ output' = res.out
                    /\ matches' = res.log
                    /\ lastAct' = act
                    /\ accepted' = IF sd \in {"B", "S"} THEN Append(accepted, line) ELSE accepted
                    /\ fillSum' = AddFills(fillSum, res.out)
                    /\ matchedQty' = AddMatched(matchedQty, res.log)
                    /\ prevBook' = book_main
                    /\ UNCHANGED <<crashed, cancelQty, acks, ackedOpen>>
       ELSE
          /\ output' = <<ERec(o, "Duplicate order id")>>
          /\ matches' = << >>
          /\ lastAct' = act
          /\ prevBook' = book_main
          /\ UNCHANGED <<book_main, OIDs, symOrder, crashed, accepted, fillSum, cancelQty, acks, ackedOpen, matchedQty>>

\* action("X oid")
ActionX(o) ==
    LET act == [a |-> "X", oid |-> o]
    IN
    /\ ~crashed
    /\ SumOver(acks, Oids) < MaxCancels /\ Steps < MaxSteps
    /\ IF o \in DOMAIN OIDs /\ OIDs[o] # EmptyLine THEN
          /\ book_main' = delete_from_book(o, book_main, OIDs)
          /\ output' = <<XRec(o)>>
          /\ matches' = << >>
          /\ lastAct' = act
          /\ cancelQty' = [cancelQty EXCEPT ![o] = @ + OpenQty(book_main, o) - OpenQty(book_main', o)]
          /\ acks' = [acks EXCEPT ![o] = @ + 1]
          /\ ackedOpen' = IF OpenQty(book_main, o) > 0 THEN ackedOpen \cup {o} ELSE ackedOpen
          /\ prevBook' = book_main
          /\ UNCHANGED <<OIDs, symOrder, crashed, accepted, fillSum, matchedQty>>
       ELSE
          \* OIDs[order_id] default-constructs an empty line; indexing the
          \* fields of its empty split is out of range
          \E fault \in BOOLEAN :
             IF fault THEN Fault
             ELSE /\ OIDs' = Put(OIDs, o, EmptyLine)
                  /\ output' = <<XRec(o)>>
                  /\ matches' = << >>
                  /\ lastAct' = act
                  /\ acks' = [acks EXCEPT ![o] = @ + 1]
                  /\ prevBook' = book_main
                  /\ UNCHANGED <<book_main, symOrder, crashed, accepted, fillSum, cancelQty, ackedOpen, matchedQty>>

\* a print that hands the books out instead of copying them
ActionP_consuming ==
    /\ ~crashed
    /\ output' = print_all(book_main, symOrder)
    /\ matches' = << >>
    /\ lastAct' = [a |-> "P", oid |-> 0]
    /\ prevBook' = book_main
    /\ book_main' = [s \in DOMAIN book_main |-> EmptyPair]
    /\ UNCHANGED <<OIDs, symOrder, crashed, accepted, fillSum, cancelQty, acks, ackedOpen, matchedQty>>

\* action("P")
ActionP ==
    /\ ~crashed
    /\ output' = print_all(book_main, symOrder)
    /\ matches' = << >>
    /\ lastAct' = [a |-> "P", oid |-> 0]
    /\ prevBook' = book_main
    /\ UNCHANGED <<book_main, OIDs, symOrder, crashed, accepted, fillSum, cancelQty, acks, ackedOpen, matchedQty>>

\* action(line) for a line with too few fields: the empty line, "O oid symbol"
\* and "X".  split() returns fewer elements than check_malformed_input and
\* the switch index, so a field is read out of range.  The empty line reads
\* through the null data pointer of an empty vector and the process dies;
\* "O oid symbol" and "X" read stray bytes past the last element: the
\* process dies, or (for the O line) the bytes fail the side length check
\* and one E record is returned.  (When a stray field happens to parse, the
\* line acts as the ActionO or ActionX of the value read, which Next offers
\* already.)
MalformedLines == {"", "O oid symbol", "X"}

MalformedAnswer(l) ==
    IF l = "O oid symbol" THEN {<<ERec(0, "Malformed side input")>>} ELSE {}

ActionMalformed(l) ==
    /\ ~crashed
    /\ lastAct' = [a |-> "M", oid |-> 0]
    /\ matches' = << >>
    /\ prevBook' = book_main
    /\ \/ /\ crashed' = TRUE
          /\ output' = << >>
       \/ /\ output' \in MalformedAnswer(l)
          /\ crashed' = crashed
    /\ UNCHANGED <<book_main, OIDs, symOrder, accepted, fillSum, cancelQty, acks, ackedOpen, matchedQty>>

Next ==
    \/ \E line \in OrderLines : ActionO(line)
    \/ \E o \in Oids : ActionX(o)
    \/ ActionP
    \/ \E l \in MalformedLines : ActionMalformed(l)

Spec == Init /\ [][Next]_vars

TypeOK ==
    /\ DOMAIN book_main = Range(symOrder)
    /\ DOMAIN OIDs \subseteq Oids
    /\ crashed \in BOOLEAN

\* ---------------------------------------------------------- properties
AcceptedOids == {accepted[i].oid : i \in DOMAIN accepted}

AcceptedLine(o) == accepted[CHOOSE i \in DOMAIN accepted : accepted[i].oid = o]

SeqOf(o) == CHOOSE i \in DOMAIN accepted : accepted[i].oid = o

Min2(a, b) == IF a <= b THEN a ELSE b

\* prices of the levels of a side book that hold at least one order
OpenPrices(sub_book) == {p \in DOMAIN sub_book : DOMAIN sub_book[p] # {}}

\* C1: every F record of an order action carries the price of the resting
\* order of its match, for a buy aggressor and for a sell aggressor.
C1_FillAtRestingPrice ==
    \A i \in DOMAIN matches :
        /\ output[2 * i - 1].px = matches[i].restPx
        /\ output[2 * i].px = matches[i].restPx

\* C2: both F records of a match report min(aggressor's remaining quantity,
\* resting order's open quantity), both taken just before the match.
C2_FillQtyIsMin ==
    \A i \in DOMAIN matches :
        /\ output[2 * i - 1].qty = Min2(matches[i].aggrRem, matches[i].restOpen)
        /\ output[2 * i].qty = Min2(matches[i].aggrRem, matches[i].restOpen)

\* C3: FIFO at a price level: when an order action matches a resting order
\* B, every order A accepted before B that rested at the same symbol, side
\* and price when the action began was fully consumed by an earlier match
\* of the same action.
C3_FifoAtLevel ==
    [][\A i \in DOMAIN matches' : \A a \in AcceptedOids :
          LET b == matches'[i].rest
          IN (/\ b \in AcceptedOids
              /\ a # b
              /\ SeqOf(a) < SeqOf(b)
              /\ AcceptedLine(a).symbol = AcceptedLine(b).symbol
              /\ AcceptedLine(a).side = AcceptedLine(b).side
              /\ AcceptedLine(a).px = AcceptedLine(b).px
              /\ OpenQty(book_main, a) > 0)
             => \E j \in 1..(i - 1) :
                    /\ matches'[j].rest = a
                    /\ matches'[j].restOpen <= matches'[j].aggrRem]_vars

\* C4: no-cross rest: for every symbol, one side holds no open order or the
\* highest open bid price is strictly below the lowest open ask price.
C4_NoCrossRest ==
    \A s \in DOMAIN book_main :
        \A bp \in OpenPrices(book_main[s].first) :
            \A ap \in OpenPrices(book_main[s].second) : bp < ap

\* C4 witness: an order action has just matched and left open orders on both
\* sides of its symbol.
C4_Witness ==
    /\ lastAct.a = "O"
    /\ matches # << >>
    /\ \E s \in DOMAIN book_main :
          /\ s = matches[1].symbol
          /\ OpenPrices(book_main[s].first) # {}
          /\ OpenPrices(book_main[s].second) # {}

\* C5: quantity conservation: for every accepted order, the quantities of
\* its F records, its open quantity in the book and the quantity its cancel
\* removed add up to its original quantity.
C5_QuantityConservation ==
    \A i \in DOMAIN accepted :
        fillSum[accepted[i].oid] + OpenQty(book_main, accepted[i].oid) + cancelQty[accepted[i].oid]
            = accepted[i].qty

\* C6: an order action whose oid an earlier order action was accepted with
\* returns exactly "E <oid> Duplicate order id" and changes neither the
\* books nor the oid index, whatever became of the earlier order; no two
\* accepted order actions share an oid.
C6_DuplicateOidRejected ==
    [][/\ (lastAct'.a = "O" /\ lastAct'.oid \in AcceptedOids)
          => /\ output' = <<ERec(lastAct'.oid, "Duplicate order id")>>
             /\ book_main' = book_main
             /\ OIDs' = OIDs
             /\ accepted' = accepted
       /\ \A i, j \in DOMAIN accepted' : accepted'[i].oid = accepted'[j].oid => i = j]_vars

\* C6 witness: a duplicate was rejected for an oid whose order was accepted
\* earlier and has since left the book.
C6_Witness ==
    /\ lastAct.a = "O"
    /\ lastAct.oid \in AcceptedOids
    /\ output = <<ERec(lastAct.oid, "Duplicate order id")>>
    /\ OpenQty(book_main, lastAct.oid) = 0
    /\ fillSum[lastAct.oid] > 0

\* C7: a cancel naming an oid that was never submitted returns exactly one
\* error record "Order not found" and leaves the books and the oid index
\* unchanged.
C7_CancelUnknownOid ==
    [][(lastAct'.a = "X" /\ lastAct'.oid \notin DOMAIN OIDs)
          => /\ output' = <<ERec(lastAct'.oid, "Order not found")>>
             /\ book_main' = book_main
             /\ OIDs' = OIDs]_vars

\* C8: a cancel naming an accepted order that is no longer open returns the
\* error record "Order not found" and no acknowledgement, so no oid is ever
\* acknowledged twice.
C8_CancelClosedOrder ==
    [][/\ (/\ lastAct'.a = "X"
           /\ lastAct'.oid \in AcceptedOids
           /\ OpenQty(book_main, lastAct'.oid) = 0)
          => output' = <<ERec(lastAct'.oid, "Order not found")>>
       /\ \A o \in Oids : acks'[o] <= 1]_vars

\* C9: cancel removes: once the cancel of an open order has been
\* acknowledged, no F record and no P record of any later action carries
\* its oid.
C9_CancelRemoves ==
    \A o \in ackedOpen :
        \A i \in DOMAIN output :
            output[i].kind \in {"F", "P"} => output[i].oid # o

\* C9 witness: after the acknowledged cancel of an open order, a later order
\* action of the same symbol and of the opposite side has matched.
C9_Witness ==
    /\ lastAct.a = "O"
    /\ matches # << >>
    /\ \E o \in ackedOpen :
          /\ AcceptedLine(o).symbol = matches[1].symbol
          /\ AcceptedLine(o).side # matches[1].aggrSide

\* C10: an action that returns an E record returns exactly one record and
\* changes neither the books nor the set of oids treated as already seen.
C10_FailedActionAtomic ==
    [][(\E i \in DOMAIN output' : output'[i].kind = "E")
          => /\ Len(output') = 1
             /\ book_main' = book_main
             /\ OIDs' = OIDs]_vars

\* the last action was an order line that was taken as an order: it is in
\* the accepted list and the books changed (a duplicate changes nothing)
AcceptedO ==
    /\ lastAct.a = "O"
    /\ lastAct.oid \in AcceptedOids
    /\ prevBook # book_main

\* the open orders a book holds for a symbol, each with its side and level
OpenOrders(book, sym) ==
    LET pair == At(book, sym, EmptyPair)
    IN {<<"B", p, pair.first[p][o]>> : <<p, o>> \in
            {<<p, o>> \in (DOMAIN pair.first) \X Oids : o \in DOMAIN pair.first[p]}}
       \cup {<<"S", p, pair.second[p][o]>> : <<p, o>> \in
            {<<p, o>> \in (DOMAIN pair.second) \X Oids : o \in DOMAIN pair.second[p]}}

\* for a buy aggressor the better ask is the lower one, for a sell aggressor
\* the better bid is the higher one
Better(p, q, aggrSide) == IF aggrSide = "B" THEN p < q ELSE p > q

\* C11: limit respected: the price of every F record of a match is at most
\* the limit price of the buy order of the match and at least the limit
\* price of its sell order.
C11_LimitRespected ==
    \A i \in DOMAIN matches :
        LET m == matches[i]
            buyLimit == IF m.aggrSide = "B" THEN AcceptedLine(m.aggr).px ELSE AcceptedLine(m.rest).px
            sellLimit == IF m.aggrSide = "B" THEN AcceptedLine(m.rest).px ELSE AcceptedLine(m.aggr).px
        IN \A k \in {2 * i - 1, 2 * i} :
              /\ output[k].px <= buyLimit
              /\ output[k].px >= sellLimit

\* C11 witness: a match between a bid and an ask of different limit prices.
C11_Witness ==
    /\ AcceptedO
    /\ \E i \in DOMAIN matches : matches[i].aggrPx # AcceptedLine(matches[i].rest).px

\* C12: symbol isolation: every F record of an order action for symbol s
\* names an order of symbol s, and the open orders of every other symbol
\* are the same before and after the action.
C12_SymbolIsolation ==
    lastAct.a = "O" =>
        /\ \A k \in DOMAIN output :
              output[k].kind = "F" =>
                  /\ AcceptedLine(output[k].oid).symbol = AcceptedLine(lastAct.oid).symbol
                  /\ output[k].symbol = AcceptedLine(lastAct.oid).symbol
        /\ \A t \in Symbols :
              \/ lastAct.oid \in AcceptedOids /\ t = AcceptedLine(lastAct.oid).symbol
              \/ OpenOrders(book_main, t) = OpenOrders(prevBook, t)

\* C12 witness: an order action has matched while another symbol held an
\* open order of the opposite side at a price the aggressor's limit crosses.
C12_Witness ==
    /\ AcceptedO
    /\ matches # << >>
    /\ \E t \in Symbols : \E x \in OpenOrders(book_main, t) :
          /\ t # matches[1].symbol
          /\ x[1] # matches[1].aggrSide
          /\ ~Better(matches[1].aggrPx, x[2], matches[1].aggrSide)

\* C13: price priority: the matches of an order action come best-priced
\* level first, and an order is matched only after every order that rested
\* at a strictly better price on that side of the symbol when the action
\* began was fully consumed by an earlier match of the action.
C13_PricePriority ==
    lastAct.a = "O" =>
        \A i \in DOMAIN matches :
            /\ output[2 * i].oid = matches[i].rest
            /\ \A j \in 1..(i - 1) :
                  ~Better(AcceptedLine(matches[i].rest).px, AcceptedLine(matches[j].rest).px,
                          matches[i].aggrSide)
            /\ \A a \in AcceptedOids :
                  (/\ OpenQty(prevBook, a) > 0
                   /\ AcceptedLine(a).symbol = matches[i].symbol
                   /\ AcceptedLine(a).side # matches[i].aggrSide
                   /\ Better(AcceptedLine(a).px, AcceptedLine(matches[i].rest).px, matches[i].aggrSide))
                  => \E j \in 1..(i - 1) :
                         /\ matches[j].rest = a
                         /\ matches[j].restOpen <= matches[j].aggrRem

\* C13 witness: an order action has swept two price levels.
C13_Witness ==
    /\ AcceptedO
    /\ Len(matches) >= 2
    /\ AcceptedLine(matches[1].rest).px # AcceptedLine(matches[2].rest).px

\* C14: the result of an accepted order action is one pair of F records per
\* match, the aggressor's record first and the resting order's second, both
\* with the same symbol, quantity and price; without a match it is empty.
C14_FillPairs ==
    AcceptedO =>
        /\ Len(output) = 2 * Len(matches)
        /\ \A i \in DOMAIN matches :
              /\ output[2 * i - 1].kind = "F"
              /\ output[2 * i].kind = "F"
              /\ output[2 * i - 1].oid = lastAct.oid
              /\ output[2 * i].oid = matches[i].rest
              /\ output[2 * i].oid # lastAct.oid
              /\ output[2 * i - 1].symbol = output[2 * i].symbol
              /\ output[2 * i - 1].qty = output[2 * i].qty
              /\ output[2 * i - 1].px = output[2 * i].px

\* C14 witness: an accepted order action has returned the records of a match.
C14_Witness ==
    /\ AcceptedO
    /\ Len(matches) >= 1
    /\ Len(output) >= 2

\* C15: print ordering: within a symbol the P records come by descending
\* price, asks before bids, and within one price level the order accepted
\* earlier comes first.
C15_PrintOrdering ==
    lastAct.a = "P" =>
        \A i, j \in DOMAIN output :
            (i < j /\ output[i].symbol = output[j].symbol) =>
                /\ output[i].px >= output[j].px
                /\ output[i].side # output[j].side => (output[i].side = "S" /\ output[j].side = "B")
                /\ (output[i].side = output[j].side /\ output[i].px = output[j].px)
                      => SeqOf(output[i].oid) < SeqOf(output[j].oid)

\* the orders that are open by the log of what happened to them: accepted,
\* not cancelled while open, and matched for less than their quantity
OpenByHistory ==
    {o \in AcceptedOids : o \notin ackedOpen /\ matchedQty[o] < AcceptedLine(o).qty}

\* C16: print content: a P action returns exactly one P record per open
\* order and none for any other oid; the record shows the order's symbol,
\* side and limit price and its quantity less the quantity matched so far.
C16_PrintContent ==
    lastAct.a = "P" =>
        /\ {output[i].oid : i \in DOMAIN output} = OpenByHistory
        /\ Len(output) = Cardinality(OpenByHistory)
        /\ \A i \in DOMAIN output :
              /\ output[i].kind = "P"
              /\ output[i].symbol = AcceptedLine(output[i].oid).symbol
              /\ output[i].side = AcceptedLine(output[i].oid).side
              /\ output[i].px = AcceptedLine(output[i].oid).px
              /\ output[i].qty = AcceptedLine(output[i].oid).qty - matchedQty[output[i].oid]

\* C16 witness: a print lists a partially filled order and omits an order
\* that was accepted and is no longer open.
C16_Witness ==
    /\ lastAct.a = "P"
    /\ \E i \in DOMAIN output : output[i].qty < AcceptedLine(output[i].oid).qty
    /\ \E o \in AcceptedOids : \A i \in DOMAIN output : output[i].oid # o

\* C17: a P action changes no engine state, and a P that directly follows a
\* P returns the same records.
C17_PrintReadOnly ==
    [][lastAct'.a = "P"
          => /\ book_main' = book_main
             /\ OIDs' = OIDs
             /\ symOrder' = symOrder
             /\ accepted' = accepted
             /\ (lastAct.a = "P" => output' = output)]_vars

\* C17 witness: a print of a book that holds open orders of both symbols.
C17_Witness ==
    /\ lastAct.a = "P"
    /\ \E i, j \in DOMAIN output : output[i].symbol # output[j].symbol

\* C18: submit/cancel round trip: an order action with a fresh oid that
\* matches nothing returns nothing, the cancel of that oid right after it
\* returns exactly "X <oid>", and the books (price levels and their orders)
\* are then what they were before the order action.
C18_SubmitCancelRoundTrip ==
    [][(/\ AcceptedO
        /\ matches = << >>
        /\ lastAct'.a = "X"
        /\ lastAct'.oid = lastAct.oid)
          => /\ output = << >>
             /\ output' = <<XRec(lastAct.oid)>>
             /\ book_main' = prevBook]_vars

\* C19: a line with the wrong number of fields returns exactly one E record,
\* changes no state and does not end the process.
C19_MalformedNeverAborts ==
    lastAct.a = "M" =>
        /\ ~crashed
        /\ Len(output) = 1
        /\ output[1].kind = "E"
        /\ book_main = prevBook

\* C20: every price level present in a side book holds at least one order.
C20_NoEmptyLevel ==
    \A s \in DOMAIN book_main :
        /\ \A p \in DOMAIN book_main[s].first : DOMAIN book_main[s].first[p] # {}
        /\ \A p \in DOMAIN book_main[s].second : DOMAIN book_main[s].second[p] # {}

\* where the books hold an entry for an oid: symbol, side and price level
Locations(book, o) ==
    LET keys == UNION {(DOMAIN book[t].first) \cup (DOMAIN book[t].second) : t \in DOMAIN book}
    IN {<<t, "B", p>> : <<t, p>> \in
            {<<t, p>> \in (DOMAIN book) \X keys :
                p \in DOMAIN book[t].first /\ o \in DOMAIN book[t].first[p]}}
       \cup {<<t, "S", p>> : <<t, p>> \in
            {<<t, p>> \in (DOMAIN book) \X keys :
                p \in DOMAIN book[t].second /\ o \in DOMAIN book[t].second[p]}}

\* the line the books hold at a location
LineAt(book, loc, o) ==
    IF loc[2] = "B" THEN book[loc[1]].first[loc[3]][o] ELSE book[loc[1]].second[loc[3]][o]

\* C21: residual handling: after an accepted order action of quantity q,
\* with r = q less the quantity matched in the action: if r > 0 the
\* aggressor rests on its own side of its symbol at its limit price with
\* quantity r, if r = 0 it is in no book; a resting order the action fully
\* consumed is in no book, a partially consumed one is still at its level
\* with the rest of its quantity, at least 1.
C21_ResidualHandling ==
    AcceptedO =>
        LET o == lastAct.oid
            ln == AcceptedLine(o)
            r == ln.qty - matchedQty[o]
        IN /\ r >= 0
           /\ r > 0 => /\ Locations(book_main, o) = {<<ln.symbol, ln.side, ln.px>>}
                       /\ LineAt(book_main, <<ln.symbol, ln.side, ln.px>>, o).qty = r
           /\ r = 0 => Locations(book_main, o) = {}
           /\ \A i \in DOMAIN matches :
                 LET m == matches[i]
                 IN IF m.restOpen <= m.aggrRem
                    THEN Locations(book_main, m.rest) = {}
                    ELSE /\ Locations(book_main, m.rest) = Locations(prevBook, m.rest)
                         /\ Cardinality(Locations(book_main, m.rest)) = 1
                         /\ OpenQty(book_main, m.rest) = m.restOpen - m.aggrRem
                         /\ OpenQty(book_main, m.rest) >= 1

\* C21 witness: an accepted order action has matched, consumed what it
\* matched, and rests with the remainder in a symbol book.
C21_Witness ==
    /\ AcceptedO
    /\ matches # << >>
    /\ matchedQty[lastAct.oid] >= 1
    /\ matchedQty[lastAct.oid] < AcceptedLine(lastAct.oid).qty
    /\ Locations(book_main, lastAct.oid) # {}

\* C22: index/book consistency: every order the books hold is at exactly
\* one price level of one side of one symbol, and OIDs holds for its oid a
\* line whose symbol, side and price are that location (the location cancel
\* and update address).
C22_IndexBookConsistency ==
    \A o \in Oids :
        Locations(book_main, o) # {} =>
            /\ o \in DOMAIN OIDs
            /\ Locations(book_main, o) = {<<OIDs[o].symbol, OIDs[o].side, OIDs[o].px>>}
            /\ LET l == LineAt(book_main, <<OIDs[o].symbol, OIDs[o].side, OIDs[o].px>>, o)
               IN /\ l.oid = o
                  /\ l.symbol = OIDs[o].symbol
                  /\ l.side = OIDs[o].side
                  /\ l.px = OIDs[o].px

\* C22 witness: the books hold an order whose quantity was updated in place
\* while another order was cancelled out of the books.
C22_Witness ==
    /\ ~crashed
    /\ \E o \in AcceptedOids :
          /\ Locations(book_main, o) # {}
          /\ OpenQty(book_main, o) < AcceptedLine(o).qty
    /\ ackedOpen # {}

====
